---- MODULE Spec2Model ----
(***************************************************************************)
(* Model of scraper.py, the SAM.gov contract-opportunities scraper:        *)
(* search_opportunities (one page fetch), extract_records (flattening a    *)
(* page), scrape (the pagination loop and the per-profile file) and the    *)
(* __main__ block (one scrape per search profile, concatenation,           *)
(* deduplication by notice_id and the combined file).                      *)
(***************************************************************************)
EXTENDS Integers, Sequences, FiniteSets, TLC

VARIABLES
    API_KEY,      \* module global read from the environment (line 22)
    nsearches,    \* number of entries of the searches list of __main__
    pc,           \* control position of the run
    err,          \* the exception that ended the run, "none" while it runs
    cur,          \* 1-based index of the profile the for loop is at
    max_results,  \* scrape(): the max_results argument of the current call
    offset,       \* scrape(): pagination cursor
    all_records,  \* scrape(): accumulated records
    all_dfs,      \* __main__: the tables returned by scrape, in profile order
    combined,     \* __main__: the concatenated, deduplicated table
    files,        \* the to_csv calls made so far, in order
    requests,     \* number of requests.get calls issued in the run
    fetches,      \* history: offsets requested by the current scrape call
    backendT,     \* history: totalRecords values the backend reported to it
    regular,      \* history: every response had a total and a page below it
    nserved,      \* history: raw entries served to the current scrape call
    failedAt,     \* history: <<profile, requests>> at a failed fetch, or <<>>
    data,         \* input of a stand-alone extract_records call
    result,       \* its outcome
    called        \* whether the stand-alone call has been made

vars == <<API_KEY, nsearches, pc, err, cur, max_results, offset, all_records,
          all_dfs, combined, files, requests, fetches, backendT, regular,
          nserved, failedAt, data, result, called>>

runVars == <<API_KEY, nsearches, pc, err, cur, max_results, offset,
             all_records, all_dfs, combined, files, requests, fetches,
             backendT, regular, nserved, failedAt>>

extractVars == <<data, result, called>>

(***************************************************************************)
(* Bounds of the model.                                                    *)
(***************************************************************************)
MaxSearches == 3     \* profiles in the searches list
MaxEntries == 2      \* raw entries in a page given to a stand-alone call
MaxDescLen == 501    \* longest description generated

(***************************************************************************)
(* Program constants.                                                      *)
(***************************************************************************)
page_size == 100
ProfileMaxResults == 100   \* max_results of every entry of searches
DefaultMaxResults == 500   \* default of scrape's max_results
DescLimit == 500

(***************************************************************************)
(* Python values.  A string s is Str(s); None is a value of its own.  A    *)
(* dict is a function whose DOMAIN is its set of keys.                     *)
(***************************************************************************)
None == [t |-> "None"]

Str(s) == [t |-> "str", v |-> s]

\* bool(v) for v a string or None
Truthy(v) == IF v = None THEN FALSE ELSE v.v # ""

\* d.get(k, default)
Get(d, k, default) == IF k \in DOMAIN d THEN d[k] ELSE default

Min(a, b) == IF a < b THEN a ELSE b

\* s[:n] for a str s
Prefix(s, n) == SubSeq(s, 1, Min(n, Len(s)))

Ok(v) == [ok |-> TRUE, val |-> v]

Raised(e) == [ok |-> FALSE, exc |-> e]

(***************************************************************************)
(* extract_records, lines 79-99.                                           *)
(***************************************************************************)
\* line 96: opp.get("description", "")[:500]; slicing None raises TypeError
Description(opp) ==
    LET d == Get(opp, "description", Str(""))
    IN  IF d = None THEN Raised("TypeError")
        ELSE Ok(Str(Prefix(d.v, DescLimit)))

\* a link built whether or not the entry has a notice identifier
LinkUnconditional(opp) ==
    LET id == Get(opp, "noticeId", None)
    IN  Str("https://sam.gov/opp/" \o (IF id = None THEN "None" ELSE id.v) \o "/view")

\* line 97
Link(opp) ==
    LET id == Get(opp, "noticeId", None)
    IN  IF Truthy(id) THEN Str("https://sam.gov/opp/" \o id.v \o "/view")
        ELSE Str("")

\* lines 83-98, for an entry whose description can be sliced
Record(opp) ==
    [notice_id           |-> Get(opp, "noticeId", None),
     title               |-> Get(opp, "title", None),
     department          |-> Get(opp, "department", None),
     sub_tier            |-> Get(opp, "subTier", None),
     office              |-> Get(opp, "office", None),
     posted_date         |-> Get(opp, "postedDate", None),
     response_deadline   |-> Get(opp, "responseDeadLine", None),
     notice_type         |-> Get(opp, "type", None),
     set_aside           |-> Get(opp, "typeOfSetAside", None),
     naics_code          |-> Get(opp, "naicsCode", None),
     classification_code |-> Get(opp, "classificationCode", None),
     active              |-> Get(opp, "active", None),
     description         |-> Description(opp).val,
     link                |-> Link(opp)]

extract_records(d) ==
    LET opps == Get(d, "opportunitiesData", <<>>)
    IN  IF \E k \in 1..Len(opps) : ~Description(opps[k]).ok
        THEN Raised("TypeError")
        ELSE Ok([k \in 1..Len(opps) |-> Record(opps[k])])

(***************************************************************************)
(* Inputs of the stand-alone extract_records call.                         *)
(***************************************************************************)
\* the character at position k of a generated text: "a", "b", "c", "a", ...
CharAt(k) == CASE k % 3 = 1 -> "a" [] k % 3 = 2 -> "b" [] OTHER -> "c"

RECURSIVE Span(_, _)
\* the characters at positions lo..hi
Span(lo, hi) ==
    IF lo > hi THEN ""
    ELSE IF lo = hi THEN CharAt(lo)
    ELSE LET mid == (lo + hi) \div 2
         IN  Span(lo, mid) \o Span(mid + 1, hi)

\* a text of n characters
Text(n) == Span(1, n)

DescLens == {2, DescLimit, MaxDescLen}

NoticeIds == {None, Str(""), Str("N1")}

Descriptions == {None} \cup {Str(Text(n)) : n \in DescLens}

\* raw entries: each of noticeId and description present or missing
RawEntries ==
    {[title |-> Str("T")]}
    \cup {[title |-> Str("T"), noticeId |-> i] : i \in NoticeIds}
    \cup {[title |-> Str("T"), description |-> s] : s \in Descriptions}
    \cup {[title |-> Str("T"), noticeId |-> i, description |-> s] :
             i \in NoticeIds, s \in Descriptions}

RECURSIVE SeqsUpTo(_, _)
SeqsUpTo(S, n) ==
    IF n = 0 THEN {<<>>}
    ELSE LET shorter == SeqsUpTo(S, n - 1)
         IN  shorter \cup {Append(s, e) : s \in {q \in shorter : Len(q) = n - 1}, e \in S}

Pages == SeqsUpTo(RawEntries, MaxEntries)

ExtractInit ==
    /\ data \in {[totalRecords |-> Len(p)] : p \in {<<>>}}
                \cup {[totalRecords |-> Len(p), opportunitiesData |-> p] : p \in Pages}
    /\ result = Ok(<<>>)
    /\ called = FALSE

ExtractRecords ==
    /\ ~called
    /\ result' = extract_records(data)
    /\ called' = TRUE
    /\ UNCHANGED data

(***************************************************************************)
(* The backend of a run: what one requests.get may return.                 *)
(***************************************************************************)
PageA == <<[noticeId |-> Str("ABC123"), title |-> Str("first")],
           [noticeId |-> None, title |-> Str("x")]>>

PageB == <<[noticeId |-> Str("N1"), title |-> Str("n")],
           [noticeId |-> Str("ABC123"), title |-> Str("second")],
           [title |-> Str("y")],
           [noticeId |-> Str("ABC123"), title |-> Str("third")],
           [noticeId |-> None, title |-> Str("z")]>>

PageNullDescription == <<[noticeId |-> Str("N2"), description |-> None]>>

RunPages == {<<>>, PageA, PageB, PageNullDescription}

RunTotals == {0, 2, 250}

Responses ==
    {[totalRecords |-> t, opportunitiesData |-> p] : t \in RunTotals, p \in RunPages}
    \cup {[opportunitiesData |-> p] : p \in RunPages}
    \cup {[totalRecords |-> t] : t \in RunTotals}

\* the max_results arguments of a direct call of scrape: the value __main__
\* passes, the default, and caps below, between and above page boundaries
MaxResultsArgs == {0, 1, 50, ProfileMaxResults, 250, DefaultMaxResults}

\* the ways requests.get / raise_for_status fail (lines 74-75)
FetchFailures == {"Timeout", "HTTPError"}

(***************************************************************************)
(* search_opportunities, lines 52-76.                                      *)
(***************************************************************************)
\* a fetch that never checks the credential
CredentialNeverMissing(key) == FALSE

\* line 52: if not API_KEY
CredentialMissing(key) == ~Truthy(key)

\* a failed fetch caught in the loop, the records so far being kept
AfterFetchFailureCaught == "save"

\* lines 74-76 raise into scrape and __main__, neither of which catches:
\* the position the run continues at after a failed fetch
AfterFetchFailure == "error"

(***************************************************************************)
(* scrape, lines 102-156.                                                  *)
(***************************************************************************)
\* a loop that runs once more, while offset <= max_results
LoopConditionInclusive(off, cap) == off <= cap

\* line 115: while offset < max_results
LoopCondition(off, cap) == off < cap

\* line 137: if offset >= total: break
Exhausted(off, total) == off >= total

\* a scrape that writes its file also when it found nothing
WritesProfileFileAlways(recs) == TRUE

\* line 142: if not all_records, return before any file is written
WritesProfileFile(recs) == recs # <<>>

(***************************************************************************)
(* __main__, lines 201-228, with the pandas calls it makes.                *)
(***************************************************************************)
RECURSIVE Concat(_)
\* pd.concat(dfs, ignore_index=True) for a non-empty list of tables
Concat(dfs) == IF dfs = <<>> THEN <<>> ELSE Head(dfs) \o Concat(Tail(dfs))

\* line 210: [df for df in all_dfs if not df.empty]
NonEmpty(dfs) == SelectSeq(dfs, LAMBDA df : df # <<>>)

\* a comparison under which a missing notice_id equals nothing
SameKeyMissingDistinct(a, b) == a.notice_id # None /\ a.notice_id = b.notice_id

\* duplicated(subset="notice_id"): two rows have the same key when their
\* notice_id values are equal; missing values (None) are equal to each other
SameKey(a, b) == a.notice_id = b.notice_id

RECURSIVE KeepFirst(_, _)
KeepFirst(df, kept) ==
    IF df = <<>> THEN kept
    ELSE IF \E j \in 1..Len(kept) : SameKey(kept[j], Head(df))
         THEN KeepFirst(Tail(df), kept)
         ELSE KeepFirst(Tail(df), Append(kept, Head(df)))

RECURSIVE drop_duplicates_keep_last(_)
\* deduplication that keeps the last row of each key, keep="last"
drop_duplicates_keep_last(df) ==
    IF df = <<>> THEN <<>>
    ELSE IF \E j \in 2..Len(df) : df[j].notice_id = Head(df).notice_id
         THEN drop_duplicates_keep_last(Tail(df))
         ELSE <<Head(df)>> \o drop_duplicates_keep_last(Tail(df))

\* line 211: combined.drop_duplicates(subset="notice_id"), keep="first"
drop_duplicates(df) == KeepFirst(df, <<>>)

(***************************************************************************)
(* The run.                                                                *)
(***************************************************************************)
RunInit ==
    /\ API_KEY \in {None, Str(""), Str("key")}
    /\ nsearches \in 1..MaxSearches
    /\ pc = "main"
    /\ err = "none"
    /\ cur = 1
    /\ max_results = 0
    /\ offset = 0
    /\ all_records = <<>>
    /\ all_dfs = <<>>
    /\ combined = <<>>
    /\ files = <<>>
    /\ requests = 0
    /\ fetches = <<>>
    /\ backendT = {}
    /\ regular = TRUE
    /\ nserved = 0
    /\ failedAt = <<>>

\* line 206: df = scrape(**s), up to the first test of the while loop
CallScrape ==
    /\ pc = "main"
    /\ cur <= nsearches
    /\ max_results' = ProfileMaxResults
    /\ offset' = 0
    /\ all_records' = <<>>
    /\ fetches' = <<>>
    /\ backendT' = {}
    /\ regular' = TRUE
    /\ nserved' = 0
    /\ pc' = "loop"
    /\ UNCHANGED <<API_KEY, nsearches, err, cur, all_dfs, combined, files,
                   requests, failedAt>>

\* lines 115-116 and 52-55: the credential is absent
ConfigError ==
    /\ pc = "loop"
    /\ LoopCondition(offset, max_results)
    /\ CredentialMissing(API_KEY)
    /\ pc' = "error"
    /\ err' = "ValueError: SAM_API_KEY not set"
    /\ UNCHANGED <<API_KEY, nsearches, cur, max_results, offset, all_records,
                   all_dfs, combined, files, requests, fetches, backendT,
                   regular, nserved, failedAt>>

\* lines 115-116 and 74-75: the request is issued and fails
FetchFails ==
    /\ pc = "loop"
    /\ LoopCondition(offset, max_results)
    /\ ~CredentialMissing(API_KEY)
    /\ requests' = requests + 1
    /\ fetches' = Append(fetches, offset)
    /\ failedAt' = <<cur, requests + 1>>
    /\ \E f \in FetchFailures : err' = f
    /\ pc' = AfterFetchFailure
    /\ UNCHANGED <<API_KEY, nsearches, cur, max_results, offset, all_records,
                   all_dfs, combined, files, backendT, regular, nserved>>

\* lines 115-140: one iteration of the loop with a decoded response
FetchPage ==
    /\ pc = "loop"
    /\ LoopCondition(offset, max_results)
    /\ ~CredentialMissing(API_KEY)
    /\ \E d \in Responses :
          LET total == Get(d, "totalRecords", 0)
              opps == Get(d, "opportunitiesData", <<>>)
              ex == extract_records(d)
          IN  /\ requests' = requests + 1
              /\ fetches' = Append(fetches, offset)
              /\ nserved' = nserved + Len(opps)
              /\ backendT' = IF "totalRecords" \in DOMAIN d
                             THEN backendT \cup {d.totalRecords} ELSE backendT
              /\ regular' = /\ regular
                            /\ "totalRecords" \in DOMAIN d
                            /\ offset < total => opps # <<>>
              /\ IF ~ex.ok
                 THEN /\ pc' = "error"
                      /\ err' = ex.exc
                      /\ UNCHANGED <<offset, all_records>>
                 ELSE IF ex.val = <<>>
                 THEN /\ pc' = "save"
                      /\ UNCHANGED <<err, offset, all_records>>
                 ELSE /\ all_records' = all_records \o ex.val
                      /\ offset' = offset + page_size
                      /\ pc' = IF Exhausted(offset + page_size, total)
                               THEN "save" ELSE "loop"
                      /\ UNCHANGED err
    /\ UNCHANGED <<API_KEY, nsearches, cur, max_results, all_dfs, combined,
                   files, failedAt>>

\* line 115: the loop condition is false
LoopExit ==
    /\ pc = "loop"
    /\ ~LoopCondition(offset, max_results)
    /\ pc' = "save"
    /\ UNCHANGED <<API_KEY, nsearches, err, cur, max_results, offset,
                   all_records, all_dfs, combined, files, requests, fetches,
                   backendT, regular, nserved, failedAt>>

\* lines 142-156 and 207: the table is built, written unless empty, returned
\* and appended to all_dfs
SaveProfile ==
    /\ pc = "save"
    /\ files' = IF WritesProfileFile(all_records)
                THEN Append(files, [kind |-> "profile", profile |-> cur,
                                    rows |-> Len(all_records)])
                ELSE files
    /\ all_dfs' = Append(all_dfs, all_records)
    /\ cur' = cur + 1
    /\ pc' = "main"
    /\ UNCHANGED <<API_KEY, nsearches, err, max_results, offset, all_records,
                   combined, requests, fetches, backendT, regular, nserved,
                   failedAt>>

\* lines 210-228: pd.concat raises ValueError on an empty list of tables
Combine ==
    /\ pc = "main"
    /\ cur > nsearches
    /\ IF NonEmpty(all_dfs) = <<>>
       THEN /\ pc' = "error"
            /\ err' = "ValueError: No objects to concatenate"
            /\ UNCHANGED <<combined, files>>
       ELSE LET c == drop_duplicates(Concat(NonEmpty(all_dfs)))
            IN  /\ combined' = c
                /\ files' = IF c # <<>>
                            THEN Append(files, [kind |-> "combined", profile |-> 0,
                                                rows |-> Len(c)])
                            ELSE files
                /\ pc' = "done"
                /\ UNCHANGED err
    /\ UNCHANGED <<API_KEY, nsearches, cur, max_results, offset, all_records,
                   all_dfs, requests, fetches, backendT, regular, nserved,
                   failedAt>>

Init ==
    /\ RunInit
    /\ data = [totalRecords |-> 0]
    /\ result = Ok(<<>>)
    /\ called = TRUE

Next ==
    \/ CallScrape /\ UNCHANGED extractVars
    \/ ConfigError /\ UNCHANGED extractVars
    \/ FetchFails /\ UNCHANGED extractVars
    \/ FetchPage /\ UNCHANGED extractVars
    \/ LoopExit /\ UNCHANGED extractVars
    \/ SaveProfile /\ UNCHANGED extractVars
    \/ Combine /\ UNCHANGED extractVars

Spec == Init /\ [][Next]_vars

(***************************************************************************)
(* One direct call of scrape, with any of the max_results arguments.       *)
(***************************************************************************)
\* the state at the first test of the while loop, line 115
InitScrape ==
    /\ API_KEY \in {None, Str(""), Str("key")}
    /\ max_results \in MaxResultsArgs
    /\ pc = "loop"
    /\ nsearches = 1
    /\ err = "none"
    /\ cur = 1
    /\ offset = 0
    /\ all_records = <<>>
    /\ all_dfs = <<>>
    /\ combined = <<>>
    /\ files = <<>>
    /\ requests = 0
    /\ fetches = <<>>
    /\ backendT = {}
    /\ regular = TRUE
    /\ nserved = 0
    /\ failedAt = <<>>
    /\ data = [totalRecords |-> 0]
    /\ result = Ok(<<>>)
    /\ called = TRUE

\* lines 142-156: the table is built, written unless empty, and returned
ScrapeReturn ==
    /\ pc = "save"
    /\ files' = IF WritesProfileFile(all_records)
                THEN Append(files, [kind |-> "profile", profile |-> cur,
                                    rows |-> Len(all_records)])
                ELSE files
    /\ pc' = "returned"
    /\ UNCHANGED <<API_KEY, nsearches, err, cur, max_results, offset, all_records,
                   all_dfs, combined, requests, fetches, backendT, regular,
                   nserved, failedAt>>

NextScrape ==
    \/ ConfigError /\ UNCHANGED extractVars
    \/ FetchFails /\ UNCHANGED extractVars
    \/ FetchPage /\ UNCHANGED extractVars
    \/ LoopExit /\ UNCHANGED extractVars
    \/ ScrapeReturn /\ UNCHANGED extractVars

SpecScrape == InitScrape /\ [][NextScrape]_vars

(***************************************************************************)
(* extract_records on its own, applied to every bounded page.              *)
(***************************************************************************)
InitExtract ==
    /\ ExtractInit
    /\ API_KEY = None
    /\ nsearches = 0
    /\ pc = "idle"
    /\ err = "none"
    /\ cur = 1
    /\ max_results = 0
    /\ offset = 0
    /\ all_records = <<>>
    /\ all_dfs = <<>>
    /\ combined = <<>>
    /\ files = <<>>
    /\ requests = 0
    /\ fetches = <<>>
    /\ backendT = {}
    /\ regular = TRUE
    /\ nserved = 0
    /\ failedAt = <<>>

NextExtract == ExtractRecords /\ UNCHANGED runVars

SpecExtract == InitExtract /\ [][NextExtract]_vars

(***************************************************************************)
(* Properties.                                                             *)
(***************************************************************************)
Max(a, b) == IF a > b THEN a ELSE b

\* ceil(n / page_size)
CeilPages(n) == (n + page_size - 1) \div page_size

\* the offsets 0, 100, 200, ... of n fetches
Offsets(n) == [k \in 1..n |-> (k - 1) * page_size]

\* the to_csv calls that wrote the file of profile p
ProfileFiles(p) == {k \in 1..Len(files) : files[k].kind = "profile" /\ files[k].profile = p}

CombinedFiles == {k \in 1..Len(files) : files[k].kind = "combined"}

\* the rows of every profile table, in concatenation order
Concatenated == Concat(all_dfs)

\* the first row of table df with notice_id id
FirstWith(df, id) ==
    df[CHOOSE k \in 1..Len(df) :
          /\ df[k].notice_id = id
          /\ \A j \in 1..(k - 1) : df[j].notice_id # id]

RowsWith(df, id) == {k \in 1..Len(df) : df[k].notice_id = id}

\* C1 (as stated): when a scrape call ends and its backend reported one
\* constant total T with a non-empty page at every offset below T, the
\* offsets fetched are 0, 100, ... and their number is
\* min(ceil(T/100), ceil(max_results/100)); the table holds the rows served.
C1_FetchCountAsStated ==
    (pc = "save" /\ regular) =>
        \A T \in RunTotals :
            backendT \subseteq {T} =>
                /\ fetches = Offsets(Min(CeilPages(T), CeilPages(max_results)))
                /\ Len(all_records) = nserved

\* C1 (amended): as above, with the number of fetches
\* min(max(1, ceil(T/100)), ceil(max_results/100)): the first page is
\* fetched whenever max_results > 0, also when T = 0.
C1_FetchCount ==
    (pc = "save" /\ regular) =>
        \A T \in RunTotals :
            backendT \subseteq {T} =>
                /\ fetches = Offsets(Min(Max(1, CeilPages(T)), CeilPages(max_results)))
                /\ Len(all_records) = nserved

C1_Witness ==
    /\ pc = "save"
    /\ regular
    /\ backendT = {250}
    /\ max_results = DefaultMaxResults
    /\ fetches = <<0, 100, 200>>

\* C2: in the combined table no two rows share a non-empty notice
\* identifier, and for every non-empty identifier of some profile table the
\* one surviving row is its first occurrence in concatenation order.
C2_FirstOccurrenceWins ==
    pc = "done" =>
        /\ \A j, k \in 1..Len(combined) :
              (j # k /\ Truthy(combined[j].notice_id))
                  => combined[j].notice_id # combined[k].notice_id
        /\ \A n \in 1..Len(Concatenated) :
              LET id == Concatenated[n].notice_id
              IN  Truthy(id) =>
                    /\ Cardinality(RowsWith(combined, id)) = 1
                    /\ FirstWith(combined, id) = FirstWith(Concatenated, id)

C2_Witness ==
    /\ pc = "done"
    /\ Len(all_dfs) = 2
    /\ \E j \in 1..Len(all_dfs[1]), k \in 1..Len(all_dfs[2]) :
          /\ all_dfs[1][j].notice_id = Str("ABC123")
          /\ all_dfs[2][k].notice_id = Str("ABC123")
          /\ all_dfs[1][j].title # all_dfs[2][k].title
          /\ \E c \in 1..Len(combined) : combined[c] = all_dfs[1][j]

\* C3: a run in which no fetch failed does not end by raising because
\* profiles came back with zero records: it never ends in the error
\* pd.concat raises for an empty list of tables.
C3_EmptyResultsAreNoError ==
    (pc = "error" /\ failedAt = <<>>) => err # "ValueError: No objects to concatenate"

\* C4: with the credential absent no request is ever issued.
C4_NoRequestWithoutCredential ==
    API_KEY = None =>
        /\ requests = 0
        /\ fetches = <<>>
        /\ err \notin FetchFailures

C4_Witness ==
    /\ API_KEY = None
    /\ pc = "error"
    /\ err = "ValueError: SAM_API_KEY not set"

\* C5: once a fetch has failed the run is over: no request is issued after
\* the failed one, the failing profile's records are written to no file and
\* returned to no table, and no combined file is written.
C5_FetchFailureIsFatal ==
    failedAt # <<>> =>
        /\ pc = "error"
        /\ err \in FetchFailures
        /\ requests = failedAt[2]
        /\ ProfileFiles(failedAt[1]) = {}
        /\ Len(all_dfs) = failedAt[1] - 1
        /\ CombinedFiles = {}

C5_Witness ==
    /\ failedAt # <<>>
    /\ pc = "error"
    /\ cur = 2
    /\ ProfileFiles(1) # {}
    /\ requests = 2

\* C6 (as stated): a run that ends normally has written exactly one file
\* for every profile and exactly one combined file.
C6_OneFilePerProfileAsStated ==
    pc = "done" =>
        /\ \A p \in 1..nsearches : Cardinality(ProfileFiles(p)) = 1
        /\ Cardinality(CombinedFiles) = 1

\* C6 (amended): a run that ends normally has written exactly one file for
\* every profile that yielded at least one record, none for a profile that
\* yielded no record, and exactly one combined file.
C6_OneFilePerNonEmptyProfile ==
    pc = "done" =>
        /\ \A p \in 1..nsearches :
              Cardinality(ProfileFiles(p)) = IF all_dfs[p] # <<>> THEN 1 ELSE 0
        /\ \A k \in 1..Len(files) :
              files[k].kind = "profile" => files[k].rows = Len(all_dfs[files[k].profile])
        /\ Cardinality(CombinedFiles) = 1

C6_Witness ==
    /\ pc = "done"
    /\ \E p, q \in 1..nsearches : all_dfs[p] = <<>> /\ all_dfs[q] # <<>>

\* the description a raw entry carries, "" when the key is missing or null
GivenDescription(opp) ==
    IF "description" \in DOMAIN opp /\ opp["description"] # None
    THEN opp["description"].v ELSE ""

\* C7: extract_records never raises on an entry with a missing or null
\* field, and each record's description is the first 500 characters of the
\* entry's description, all of it when shorter, "" when missing or null.
C7_NoErrorAndTruncation ==
    called =>
        LET opps == Get(data, "opportunitiesData", <<>>)
        IN  /\ result.ok
            /\ Len(result.val) = Len(opps)
            /\ \A k \in 1..Len(opps) :
                  LET given == GivenDescription(opps[k])
                      got == result.val[k].description.v
                  IN  /\ Len(given) > DescLimit =>
                         (Len(got) = DescLimit /\ got = SubSeq(given, 1, DescLimit))
                      /\ Len(given) <= DescLimit => got = given

\* C8: every record's link is "" when the entry's notice identifier is
\* missing, null or empty, and "https://sam.gov/opp/<id>/view" otherwise;
\* the records are in the order of the entries.
C8_LinkAndOrder ==
    (called /\ result.ok) =>
        LET opps == Get(data, "opportunitiesData", <<>>)
        IN  /\ Len(result.val) = Len(opps)
            /\ \A k \in 1..Len(opps) :
                  LET rec == result.val[k]
                      hasId == /\ "noticeId" \in DOMAIN opps[k]
                               /\ opps[k]["noticeId"] \notin {None, Str("")}
                  IN  /\ hasId => /\ rec.notice_id = opps[k]["noticeId"]
                                  /\ rec.link.v = "https://sam.gov/opp/"
                                                   \o opps[k]["noticeId"].v \o "/view"
                      /\ ~hasId => rec.link = Str("")
                      /\ rec.description.v = Prefix(GivenDescription(opps[k]), DescLimit)

C8_Witness ==
    /\ called
    /\ result.ok
    /\ Len(result.val) = 2
    /\ result.val[1].link = Str("https://sam.gov/opp/N1/view")
    /\ result.val[2].notice_id = None
    /\ result.val[2].link = Str("")

\* C9: the records a scrape call has accumulated never exceed max_results.
C9_CapBoundsRecords ==
    pc \in {"loop", "save"} => Len(all_records) <= max_results

\* C10: the combined table keeps at most one row without a notice
\* identifier, the first in concatenation order, and no key (absent
\* included) that occurs twice inside one profile table occurs twice in it.
C10_AbsentIdIsOneKey ==
    pc = "done" =>
        /\ Cardinality(RowsWith(combined, None)) <= 1
        /\ RowsWith(Concatenated, None) # {} =>
              /\ RowsWith(combined, None) # {}
              /\ FirstWith(combined, None) = FirstWith(Concatenated, None)
        /\ \A p \in 1..Len(all_dfs) : \A j \in 1..Len(all_dfs[p]) :
              Cardinality(RowsWith(combined, all_dfs[p][j].notice_id)) = 1

C10_Witness ==
    /\ pc = "done"
    /\ Cardinality(RowsWith(Concatenated, None)) >= 3
    /\ \E p \in 1..Len(all_dfs) :
          Cardinality(RowsWith(all_dfs[p], Str("ABC123"))) >= 2
    /\ Cardinality(RowsWith(combined, None)) = 1
====
